---- MODULE Spec2Model ----
(***************************************************************************)
(* Model of the two scripts of the repository:                             *)
(*   python/pred.py   generate_predictions(category, store, start, end)    *)
(*   python/route.py  load predictions, select stores, order them, query   *)
(*                    the routing service leg by leg, save the map         *)
(* The scripts share one directory; route.py reads the predictions.csv     *)
(* that pred.py may write.  A run of pred.py is followed by a run of       *)
(* route.py.                                                               *)
(*                                                                         *)
(* Representation of values                                                *)
(*   a date string 'YYYY-MM-DD'  the triple <<y, m, d>> of its fields      *)
(*   a datetime                  its proleptic Gregorian ordinal           *)
(*   an M5 item id               the sequence of its "_"-separated parts   *)
(*   a distance                  metres (integer)                          *)
(*   an emission                 units of 10^-5 kg (metres * 27)           *)
(*   a confidence                hundredths                                *)
(***************************************************************************)
EXTENDS Integers, Sequences, FiniteSets, TLC

\* ------------------------------------------------------------------ bounds
\* longest date range (in days) the while loop of the mock branch is run on
MaxSpan == 7
\* largest number of rows of the preprocessed data file
MaxRows == 43
\* largest number of rows of store_locations.csv
MaxStores == 7

\* ------------------------------------------------------- generic helpers
Min(a, b) == IF a < b THEN a ELSE b
Max(a, b) == IF a > b THEN a ELSE b
Range(s) == {s[i] : i \in 1..Len(s)}
Head_(s, n) == SubSeq(s, 1, Min(n, Len(s)))

RECURSIVE SumSeq(_)
SumSeq(s) == IF s = <<>> THEN 0 ELSE s[1] + SumSeq(Tail(s))

\* Python None for the string arguments, and NaN / missing cell of a frame
None == "None"
NaN == "NaN"
NoneDate == <<>>
\* pandas NaT / an empty date cell
NaT == <<>>

\* truth value of an optional string argument / an optional date argument
Truthy(x) == x # None
TruthyDate(x) == x # NoneDate

\* --------------------------------------------------------------- calendar
\* datetime.MAXYEAR; datetime.max is 9999-12-31
MAXYEAR == 9999

IsLeap(y) == (y % 4 = 0) /\ ((y % 100 # 0) \/ (y % 400 = 0))

DaysInMonth(y, m) ==
    IF m = 2 THEN (IF IsLeap(y) THEN 29 ELSE 28)
    ELSE IF m \in {4, 6, 9, 11} THEN 30 ELSE 31

DaysBeforeYear(y) ==
    (y - 1) * 365 + ((y - 1) \div 4) - ((y - 1) \div 100) + ((y - 1) \div 400)

DAYS_BEFORE_MONTH ==
    <<0, 31, 59, 90, 120, 151, 181, 212, 243, 273, 304, 334>>

DaysBeforeMonth(y, m) ==
    DAYS_BEFORE_MONTH[m] + (IF m > 2 /\ IsLeap(y) THEN 1 ELSE 0)

Ymd2Ord(s) == DaysBeforeYear(s[1]) + DaysBeforeMonth(s[1], s[2]) + s[3]

MAXORDINAL == Ymd2Ord(<<MAXYEAR, 12, 31>>)

\* datetime.strptime(s, '%Y-%m-%d') accepts s
ValidDateString(s) ==
    /\ Len(s) = 3
    /\ s[1] \in 1..MAXYEAR
    /\ s[2] \in 1..12
    /\ s[3] \in 1..DaysInMonth(s[1], s[2])

\* datetime.strptime(s, '%Y-%m-%d'), for a string it accepts
strptime(s) == Ymd2Ord(s)

\* date.fromordinal as CPython computes it (_ord2ymd), then '%Y-%m-%d'
strftime(ord) ==
    LET n0   == ord - 1
        n400 == n0 \div 146097
        r400 == n0 % 146097
        n100 == r400 \div 36524
        r100 == r400 % 36524
        n4   == r100 \div 1461
        r4   == r100 % 1461
        n1   == r4 \div 365
        n    == r4 % 365
        year == n400 * 400 + 1 + n100 * 100 + n4 * 4 + n1
        leapyear == n1 = 3 /\ (n4 # 24 \/ n100 = 3)
        lp(mm) == IF mm > 2 /\ leapyear THEN 1 ELSE 0
        month0 == (n + 50) \div 32
        prec0  == DAYS_BEFORE_MONTH[month0] + lp(month0)
        month  == IF prec0 > n THEN month0 - 1 ELSE month0
        prec   == DAYS_BEFORE_MONTH[month] + lp(month)
    IN  IF n1 = 4 \/ n100 = 4
        THEN <<year - 1, 12, 31>>
        ELSE <<year, month, n - prec + 1>>

\* ------------------------------------------------------------ pred.py data
\* column names of the frames
DEFAULT_FEATURES == <<"sell_price", "weekday", "month", "year">>
DEFAULT_START == <<2024, 1, 1>>
DEFAULT_END == <<2024, 1, 7>>

\* df.head(20) of the data branch
HEAD_ROWS == 20

MSG_OK == "Predictions generated successfully"
MSG_MOCK == "Predictions generated successfully (using mock data)"
MSG_FAILED == "Prediction generation failed: "

\* multipliers of the mock branch, in tenths
category_multiplier(c) ==
    CASE c = "HOBBIES" -> 12 [] c = "HOUSEHOLD" -> 9 [] c = "FOODS" -> 15
      [] c = "ELECTRONICS" -> 8 [] c = "CLOTHING" -> 11 [] c = "SPORTS" -> 10
      [] OTHER -> 10

store_multiplier(s) ==
    CASE s = "CA_1" -> 13 [] s = "CA_2" -> 11 [] s = "CA_3" -> 9
      [] s = "TX_1" -> 12 [] s = "TX_2" -> 10 [] s = "TX_3" -> 8
      [] s = "WI_1" -> 9 [] s = "WI_2" -> 11 [] s = "WI_3" -> 10
      [] OTHER -> 10

\* round(x, 0) of a non-negative value given in hundredths (half to even)
round0(h) ==
    LET q == h \div 100
        r == h % 100
    IN  IF r < 50 THEN q
        ELSE IF r > 50 THEN q + 1
        ELSE IF q % 2 = 0 THEN q ELSE q + 1

\* numpy's generator: the k-th draw is a function of the seed
NORMAL_DRAWS == <<-20, 0, 15>>
UNIFORM_DRAWS == <<100, 317, 500>>
normal(seed, k) == NORMAL_DRAWS[((seed + k) % 3) + 1]
uniform(seed, k) == UNIFORM_DRAWS[((seed + 2 * k) % 3) + 1]

VARIABLES
    \* files
    model_path,      \* lgbm_model.txt: "absent", "ok" or "corrupt"
    joblib_path,     \* lightgbm_model.pkl: "absent", "ok" or "corrupt"
    feature_file,    \* feature_names.json: [state, names]; "corrupt" is a
                     \*   file that does not hold a JSON list of names
    data_file,       \* m5_preprocessed_sample.csv: [state, cols, rows]
    preds_file,      \* predictions.csv: [state, cols, rows]
    stores_file,     \* store_locations.csv: [state, rows]
    lib,             \* the trained model and the generator:
                     \*   [model_out, predict_raises, seed]
    \* generate_predictions
    params,          \* the arguments of the call:
                     \*   [category, store, start_date, end_date]
    start_date, end_date,
    pred_pc,         \* "start", "while", "for", "returned"
    feature_names, end_dt, current_date, date_range,
    results,         \* the returned dict
    stdout,          \* what pred.py printed, in order
    \* route.py
    route_pc,        \* "start", "select", "tsp", "legs", "done", "error"
    route_error,     \* the exception that stopped the script, or "none"
    state_demand,    \* aggregated demand: state |-> sum
    routes_df,       \* the selected rows of store_locations.csv
    route,           \* the visiting order, a sequence of store names
    leg,             \* the loop index i of the routing loop
    requests,        \* the routing requests sent, in order
    total_distance_km,
    total_emissions_kg,
    m,               \* the map: [markers, lines, summary]
    route_stdout,    \* the error lines route.py printed
    output_map       \* the saved map file: [state, map]

\* the parameters category and store are never rebound
category == params.category
store == params.store

pred_vars == <<params, start_date, end_date, pred_pc, feature_names,
               end_dt, current_date, date_range, results, stdout>>
file_vars == <<model_path, joblib_path, feature_file, data_file, stores_file,
               lib>>
route_vars == <<route_pc, route_error, state_demand, routes_df, route, leg,
                requests, total_distance_km, total_emissions_kg, m,
                route_stdout, output_map>>
vars == <<file_vars, preds_file, pred_vars, route_vars>>

\* ------------------------------------------------- generate_predictions
error_result(detail) ==
    [status |-> "error", message |-> <<MSG_FAILED, detail>>]

\* print(json.dumps(d))
json_line(d) == [kind |-> "json", value |-> d]
warning_line(have, want) == [kind |-> "warning", have |-> have, want |-> want]

\* except Exception as e: print and return the error dict
Raise(detail, printed) ==
    /\ results' = error_result(detail)
    /\ stdout' = Append(printed, json_line(error_result(detail)))
    /\ pred_pc' = "returned"

\* lines 29-36: which model gets loaded, or the exception
ModelLoad ==
    IF model_path # "absent"
    THEN (IF model_path = "ok" THEN "ok" ELSE "LightGBMError")
    ELSE IF joblib_path # "absent"
    THEN (IF joblib_path = "ok" THEN "ok" ELSE "UnpicklingError")
    ELSE "Trained model not found. Please train the model first."

\* lines 39-43
FeatureLoad ==
    IF feature_file.state = "absent" THEN DEFAULT_FEATURES
    ELSE feature_file.names

\* the exception of lines 18-43, "none" when there is none
SetupError ==
    IF ModelLoad # "ok" THEN ModelLoad
    ELSE IF feature_file.state = "corrupt" THEN "JSONDecodeError"
    ELSE "none"

\* lines 18-43 raise
LoadFail ==
    /\ pred_pc = "start"
    /\ SetupError # "none"
    /\ Raise(SetupError, stdout)
    /\ UNCHANGED <<file_vars, route_vars>>
    /\ UNCHANGED <<params, start_date, end_date, feature_names,
                   end_dt, current_date, date_range, preds_file>>

\* lines 51-61: the columns of df after the date features and sell_price
df_columns(cols) ==
    cols \cup (IF "date" \in cols THEN {"weekday", "month", "year"} ELSE {})
         \cup {"sell_price"}

\* lines 64-67: the rows left by the store and category filters
filter_rows(rows, cols, st, cat) ==
    LET by_store == IF Truthy(st) /\ "store_id" \in cols
                    THEN SelectSeq(rows, LAMBDA r: r.store_id = st)
                    ELSE rows
    IN  IF Truthy(cat) /\ "cat_id" \in cols
        THEN SelectSeq(by_store, LAMBDA r: r.cat_id = cat)
        ELSE by_store

\* line 70
available_features(names, cols) == SelectSeq(names, LAMBDA f: f \in cols)

\* line 52: pd.to_datetime raises on a cell that is no date
dates_parse(rows) ==
    \A i \in 1..Len(rows): rows[i].date = NaT \/ ValidDateString(rows[i].date)

\* line 83: the frame written to predictions.csv
csv_of(rows, cols, out) ==
    [state |-> "present",
     cols |-> IF "date" \in cols THEN {"id", "date", "predicted_demand"}
              ELSE {"id", "predicted_demand"},
     rows |-> [i \in 1..Len(rows) |->
                 [id |-> rows[i].id,
                  date |-> IF "date" \in cols /\ rows[i].date # NaT
                           THEN strftime(strptime(rows[i].date)) ELSE NaT,
                  store_id |-> NaN,
                  value |-> out]]]

\* line 87 without the limit
head_rows_all(rows) == rows

\* line 87: df.head(20)
head_rows(rows) == Head_(rows, HEAD_ROWS)

\* lines 88-98: one entry of the returned list
data_prediction(r, i, cols, out) ==
    [date |-> IF "date" \in cols /\ r.date # NaT
              THEN strftime(strptime(r.date))
              ELSE IF TruthyDate(start_date) THEN start_date ELSE DEFAULT_START,
     store_id |-> IF Truthy(store) THEN store
                  ELSE IF "store_id" \in cols THEN r.store_id ELSE "UNKNOWN",
     cat_id |-> IF Truthy(category) THEN category
                ELSE IF "cat_id" \in cols THEN r.cat_id ELSE "UNKNOWN",
     prediction |-> out,
     confidence |-> Max(70, 85 + normal(lib.seed, i))]

\* lines 100-108
data_results(rows, cols, avail, out) ==
    LET shown == head_rows(rows)
        predictions == [i \in 1..Len(shown) |->
                          data_prediction(shown[i], i, cols, out)]
    IN  [status |-> "success",
         message |-> MSG_OK,
         predictions |-> predictions,
         total_predictions |-> Len(predictions),
         prediction_period |->
             IF TruthyDate(start_date) /\ TruthyDate(end_date)
             THEN <<start_date, end_date>> ELSE <<"Historical data">>,
         model_version |-> "LightGBM_v1.2",
         features_used |-> avail]

\* lines 47-113: the data file exists
DataBranch ==
    /\ pred_pc = "start"
    /\ SetupError = "none"
    /\ data_file.state # "absent"
    /\ LET names == FeatureLoad
           cols == df_columns(data_file.cols)
           rows == filter_rows(data_file.rows, data_file.cols, store, category)
           avail == available_features(names, cols)
           printed == IF Len(avail) < Len(names)
                      THEN Append(stdout, warning_line(Len(avail), Len(names)))
                      ELSE stdout
           res == data_results(rows, data_file.cols, avail, lib.model_out)
       IN  /\ feature_names' = names
           /\ IF data_file.state = "corrupt"
              THEN Raise("ParserError", stdout) /\ UNCHANGED preds_file
              ELSE IF "date" \in data_file.cols /\ ~dates_parse(data_file.rows)
              THEN Raise("Unknown datetime string format", stdout)
                   /\ UNCHANGED preds_file
              ELSE IF Len(avail) = 0
              THEN Raise("No matching features found for prediction", printed)
                   /\ UNCHANGED preds_file
              ELSE IF lib.predict_raises
              THEN Raise("LightGBMError", printed) /\ UNCHANGED preds_file
              ELSE IF "id" \notin data_file.cols
              THEN Raise("KeyError: id", printed) /\ UNCHANGED preds_file
              ELSE /\ preds_file' = csv_of(rows, data_file.cols, lib.model_out)
                   /\ results' = res
                   /\ stdout' = Append(printed, json_line(res))
                   /\ pred_pc' = "returned"
    /\ UNCHANGED <<file_vars, route_vars>>
    /\ UNCHANGED <<params, start_date, end_date, end_dt,
                   current_date, date_range>>

\* line 116 with "and" in place of "or"
need_defaults_and(s, e) == ~TruthyDate(s) /\ ~TruthyDate(e)

\* line 116: are the default dates taken
need_defaults(s, e) == ~TruthyDate(s) \/ ~TruthyDate(e)

\* lines 114-126: the data file does not exist; dates are parsed
MockBegin ==
    /\ pred_pc = "start"
    /\ SetupError = "none"
    /\ data_file.state = "absent"
    /\ LET s == IF need_defaults(start_date, end_date)
                THEN DEFAULT_START ELSE start_date
           e == IF need_defaults(start_date, end_date)
                THEN DEFAULT_END ELSE end_date
       IN  /\ feature_names' = FeatureLoad
           /\ start_date' = s
           /\ end_date' = e
           /\ IF ~ValidDateString(s) \/ ~ValidDateString(e)
              THEN /\ Raise("time data does not match format '%Y-%m-%d'",
                            stdout)
                   /\ UNCHANGED <<end_dt, current_date, date_range>>
              ELSE /\ current_date' = strptime(s)
                   /\ end_dt' = strptime(e)
                   /\ date_range' = <<>>
                   /\ pred_pc' = "while"
                   /\ UNCHANGED <<results, stdout>>
    /\ UNCHANGED <<file_vars, route_vars>>
    /\ UNCHANGED <<params, preds_file>>

\* line 127 with "<" in place of "<="
while_cond_strict(cur, end) == cur < end

\* line 127: the loop condition
while_cond(cur, end) == cur <= end

\* lines 127-129: one iteration of the while loop
MockWhile ==
    /\ pred_pc = "while"
    /\ while_cond(current_date, end_dt)
    /\ date_range' = Append(date_range, current_date)
    /\ IF current_date + 1 > MAXORDINAL
       THEN Raise("date value out of range", stdout)
            /\ UNCHANGED current_date
       ELSE /\ current_date' = current_date + 1
            /\ UNCHANGED <<results, stdout, pred_pc>>
    /\ UNCHANGED <<file_vars, route_vars>>
    /\ UNCHANGED <<params, start_date, end_date, feature_names,
                   end_dt, preds_file>>

\* lines 134-181: one entry of the mock list, for the i-th date
mock_prediction(date, i) ==
    LET pred == IF lib.predict_raises THEN uniform(lib.seed, i)
                ELSE lib.model_out
        adjusted_pred == Max(0, pred * category_multiplier(category)
                                     * store_multiplier(store))
        confidence == Min(95, 85 + normal(lib.seed, i))
    IN  [date |-> strftime(date),
         store_id |-> IF Truthy(store) THEN store ELSE "CA_1",
         cat_id |-> IF Truthy(category) THEN category ELSE "HOBBIES",
         prediction |-> round0(adjusted_pred),
         confidence |-> Max(70, confidence)]

\* lines 184-192
mock_results(dates) ==
    LET predictions == [i \in 1..Len(dates) |-> mock_prediction(dates[i], i)]
    IN  [status |-> "success",
         message |-> MSG_MOCK,
         predictions |-> predictions,
         total_predictions |-> Len(predictions),
         prediction_period |-> <<start_date, end_date>>,
         model_version |-> "LightGBM_v1.2",
         features_used |-> feature_names]

\* lines 131-195: the while loop is left, the list is built and returned
MockFor ==
    /\ pred_pc = "while"
    /\ ~while_cond(current_date, end_dt)
    /\ results' = mock_results(date_range)
    /\ stdout' = Append(stdout, json_line(mock_results(date_range)))
    /\ pred_pc' = "returned"
    /\ UNCHANGED <<file_vars, route_vars>>
    /\ UNCHANGED <<params, start_date, end_date, feature_names,
                   end_dt, current_date, date_range, preds_file>>

\* ---------------------------------------------------------------- route.py
\* CONFIG, lines 15-17 (the emission factor 0.27 kg/km in hundredths)
threshold == 10
N == 5
EMISSION_FACTOR_KG_PER_KM == 27

\* the script stops with an exception
Stop(e) ==
    /\ route_pc' = "error"
    /\ route_error' = e

\* store_id.str[:2]
str2(sid) ==
    CASE sid \in {"CA_1", "CA_2", "CA_3"} -> "CA"
      [] sid \in {"TX_1", "TX_2", "TX_3"} -> "TX"
      [] sid \in {"WI_1", "WI_2", "WI_3"} -> "WI"
      [] OTHER -> sid

\* id.str.split("_").str[3]
split3(id) == IF Len(id) >= 4 THEN id[4] ELSE NaN

\* line 31
state_id(r, cols) == IF "store_id" \in cols THEN str2(r.store_id)
                     ELSE split3(r.id)

\* line 34: groupby("state_id")[...].sum(); rows without a state are dropped
groupby_sum(rows, cols) ==
    LET keys == {state_id(rows[i], cols) : i \in 1..Len(rows)} \ {NaN}
    IN  [k \in keys |->
           SumSeq([i \in 1..Len(rows) |->
                     IF state_id(rows[i], cols) = k THEN rows[i].value
                     ELSE 0])]

\* the exception of lines 26-34, "none" when there is none
LoadError ==
    IF preds_file.state = "absent" THEN "FileNotFoundError: predictions.csv"
    ELSE IF "date" \notin preds_file.cols THEN "KeyError: date"
    ELSE IF ~dates_parse(preds_file.rows) THEN "DateParseError"
    ELSE IF "store_id" \notin preds_file.cols /\ "id" \notin preds_file.cols
    THEN "KeyError: id"
    ELSE IF "prediction" \notin preds_file.cols
            /\ "predicted_demand" \notin preds_file.cols
    THEN "KeyError: predicted_demand"
    ELSE "none"

\* lines 24-35: load predictions.csv and aggregate the demand per state
RouteLoad ==
    /\ pred_pc = "returned"
    /\ route_pc = "start"
    /\ IF LoadError # "none"
       THEN Stop(LoadError) /\ UNCHANGED state_demand
       ELSE /\ state_demand' = groupby_sum(preds_file.rows, preds_file.cols)
            /\ route_pc' = "select"
            /\ UNCHANGED route_error
    /\ UNCHANGED <<file_vars, preds_file, pred_vars, routes_df, route, leg,
                   requests, total_distance_km, total_emissions_kg, m,
                   route_stdout, output_map>>

\* line 38 with ">=" in place of ">"
selected_states_ge(demand) == {k \in DOMAIN demand : demand[k] >= threshold}

\* line 38
selected_states(demand) == {k \in DOMAIN demand : demand[k] > threshold}

\* line 48
head_N(rows) == Head_(rows, N)

\* lines 47-48
select_stores(stores, demand) ==
    head_N(SelectSeq(stores, LAMBDA r: r.state \in selected_states(demand)))

\* lines 37-53: filter the states, load the stores, select the rows
RouteSelect ==
    /\ route_pc = "select"
    /\ IF stores_file.state = "absent"
       THEN Stop("FileNotFoundError: store_locations.csv")
            /\ UNCHANGED routes_df
       ELSE /\ routes_df' = select_stores(stores_file.rows, state_demand)
            /\ IF routes_df' = <<>>
               THEN Stop("No stores selected for routing")
               ELSE route_pc' = "tsp" /\ UNCHANGED route_error
    /\ UNCHANGED <<file_vars, preds_file, pred_vars, state_demand, route, leg,
                   requests, total_distance_km, total_emissions_kg, m,
                   route_stdout, output_map>>

\* line 66
store_names(df) == [i \in 1..Len(df) |-> df[i].name]

\* lines 73-75: the nodes of G; relabel_nodes merges equal names
graph_nodes(df) == Range(store_names(df))

\* line 82: what traveling_salesman_problem(G, cycle=False) can return, a
\* Hamiltonian path of the complete graph G
tsp_paths(nodes) ==
    {p \in [1..Cardinality(nodes) -> nodes] :
        \A i, j \in 1..Cardinality(nodes) : i # j => p[i] # p[j]}

\* line 82: with a single node the auxiliary graph of the solver has no
\* edge; depending on the installed networkx the call raises or returns
\* the single node
tsp_may_raise(nodes) == Cardinality(nodes) < 2

empty_map == [markers |-> <<>>, lines |-> <<>>, summary |-> <<>>]

\* lines 55-112: distance matrix, visiting order, map and markers.  The
\* haversine weights of lines 56-80 only steer which Hamiltonian path the
\* solver picks, so every path is allowed here.
RouteTsp ==
    /\ route_pc = "tsp"
    /\ \/ /\ tsp_may_raise(graph_nodes(routes_df))
          /\ Stop("NetworkXError")
          /\ UNCHANGED <<route, m, leg, total_distance_km,
                         total_emissions_kg>>
       \/ /\ route' \in tsp_paths(graph_nodes(routes_df))
          /\ m' = [markers |-> routes_df, lines |-> <<>>, summary |-> <<>>]
          /\ total_distance_km' = 0
          /\ total_emissions_kg' = 0
          /\ leg' = 0
          /\ route_pc' = "legs"
          /\ UNCHANGED route_error
    /\ UNCHANGED <<file_vars, preds_file, pred_vars, state_demand, routes_df,
                   requests, route_stdout, output_map>>

\* lines 115-116: routes_df[routes_df["name"] == name].iloc[0]
first_named(df, name) ==
    df[CHOOSE i \in 1..Len(df) :
          df[i].name = name /\ \A j \in 1..(i - 1) : df[j].name # name]

Abs(x) == IF x < 0 THEN -x ELSE x

\* the road distance in metres the routing service answers for a pair
osrm_distance(a, b) ==
    1000 * (111 * Abs(a.latitude - b.latitude)
            + 85 * Abs(a.longitude - b.longitude)) + 400

\* lines 131-134 with the emissions assigned instead of accumulated
add_leg_assign(total_km, total_kg, metres) ==
    [km |-> total_km + metres,
     kg |-> metres * EMISSION_FACTOR_KG_PER_KM]

\* lines 131-134: the totals after a leg of the given distance
add_leg(total_km, total_kg, metres) ==
    [km |-> total_km + metres,
     kg |-> total_kg + metres * EMISSION_FACTOR_KG_PER_KM]

\* lines 114-145: one iteration of the routing loop
RouteLeg ==
    /\ route_pc = "legs"
    /\ leg < Len(route) - 1
    /\ LET store_a == first_named(routes_df, route[leg + 1])
           store_b == first_named(routes_df, route[leg + 2])
           metres == osrm_distance(store_a, store_b)
           sums == add_leg(total_distance_km, total_emissions_kg, metres)
       IN  /\ requests' = Append(requests, <<store_a, store_b>>)
           /\ \E response \in {"routes", "no routes", "raises"} :
                CASE response = "raises" ->
                       /\ Stop("RequestException")
                       /\ UNCHANGED <<leg, total_distance_km,
                                      total_emissions_kg, m, route_stdout>>
                  [] response = "no routes" ->
                       /\ route_stdout' = Append(route_stdout,
                              [from |-> route[leg + 1], to |-> route[leg + 2]])
                       /\ leg' = leg + 1
                       /\ UNCHANGED <<route_pc, route_error, m,
                                      total_distance_km, total_emissions_kg>>
                  [] response = "routes" ->
                       /\ total_distance_km' = sums.km
                       /\ total_emissions_kg' = sums.kg
                       /\ m' = [m EXCEPT !.lines = Append(@,
                              [leg |-> leg, distance_km |-> metres,
                               emission_kg |->
                                   metres * EMISSION_FACTOR_KG_PER_KM])]
                       /\ leg' = leg + 1
                       /\ UNCHANGED <<route_pc, route_error, route_stdout>>
    /\ UNCHANGED <<file_vars, preds_file, pred_vars, state_demand, routes_df,
                   route, output_map>>

\* lines 147-172: the summary is added and the map is saved
RouteSave ==
    /\ route_pc = "legs"
    /\ ~(leg < Len(route) - 1)
    /\ m' = [m EXCEPT !.summary = <<total_distance_km, total_emissions_kg>>]
    /\ output_map' = [state |-> "present", map |-> m']
    /\ route_pc' = "done"
    /\ UNCHANGED <<file_vars, preds_file, pred_vars, state_demand, routes_df,
                   route, leg, requests, total_distance_km,
                   total_emissions_kg, route_error, route_stdout>>

\* ------------------------------------------------------------ environments
\* the date arguments tried: no date, strings strptime rejects, and days
\* around a leap day, a century February, a year end and datetime.max
DateArgs ==
    {NoneDate, <<2023, 2, 29>>, <<2024, 13, 1>>,
     <<2023, 12, 31>>, <<2024, 1, 1>>, <<2024, 1, 3>>,
     <<2024, 2, 28>>, <<2024, 2, 29>>, <<2024, 3, 1>>,
     <<2100, 2, 28>>, <<2100, 3, 1>>,
     <<MAXYEAR, 12, 30>>, <<MAXYEAR, 12, 31>>}

\* the while loop runs at most MaxSpan times
SpanOk(s, e) ==
    (ValidDateString(s) /\ ValidDateString(e))
        => Ymd2Ord(e) - Ymd2Ord(s) < MaxSpan

FeatureFiles ==
    {[state |-> "absent", names |-> <<>>],
     [state |-> "corrupt", names |-> <<>>],
     [state |-> "ok", names |-> <<"sell_price", "lag_7">>],
     [state |-> "ok", names |-> <<"weekday", "month">>],
     [state |-> "ok", names |-> <<"lag_7">>]}

\* the i-th row of the preprocessed data file
data_row(i) ==
    LET st == IF i % 2 = 1 THEN "CA_1" ELSE "TX_1"
        cat == IF i % 3 = 0 THEN "FOODS" ELSE "HOBBIES"
    IN  [id |-> IF i % 11 = 0 THEN <<cat, "1">>
                ELSE <<cat, "1", ToString(i), str2(st), "1", "validation">>,
         date |-> IF i % 5 = 0 THEN NaT ELSE strftime(738944 + (i % 3)),
         store_id |-> st,
         cat_id |-> cat]

RowCounts == {0, 1, 2, 3, HEAD_ROWS, HEAD_ROWS + 1, MaxRows}

DataFiles ==
    {[state |-> "corrupt", cols |-> {}, rows |-> <<>>]}
    \cup {[state |-> "present", cols |-> c \cup {"sell_price"},
           rows |-> [i \in 1..n |-> data_row(i)]] :
             c \in SUBSET {"id", "date", "store_id", "cat_id"},
             n \in RowCounts}

NoFile == [state |-> "absent", cols |-> {}, rows |-> <<>>]

\* a predictions.csv left by an earlier run or written by hand
csv_row(sid, val) ==
    [id |-> <<"FOODS", "1", "001", str2(sid), "1", "validation">>,
     date |-> <<2024, 1, 1>>, store_id |-> sid, value |-> val]

StaleRows ==
    {<<>>,
     <<csv_row("CA_1", 4), csv_row("TX_1", 11), csv_row("CA_2", 6)>>,
     <<csv_row("CA_1", 7), csv_row("TX_1", 12), csv_row("CA_2", 3),
       csv_row("WI_3", 30)>>,
     <<csv_row("WI_1", 11), csv_row("CA_3", -2)>>,
     <<csv_row("WI_1", 11), csv_row("CA_3", 6), csv_row("TX_2", 40),
       csv_row("CA_3", 5)>>}

StaleFiles ==
    {[state |-> "present", cols |-> c, rows |-> r] :
        c \in {{"store_id", "date", "prediction"},
               {"id", "date", "predicted_demand"},
               {"id", "predicted_demand"}},
        r \in StaleRows}

\* the i-th row of store_locations.csv; with dup the second row has the
\* name of the first
store_row(i, dup) ==
    [name |-> IF dup /\ i = 2 THEN "S1" ELSE "S" \o ToString(i),
     state |-> IF i = 1 THEN "CA" ELSE IF i % 2 = 0 THEN "TX" ELSE "WI",
     latitude |-> 30 + i,
     longitude |-> 2 * i - 100]

StoreFiles ==
    {[state |-> "absent", rows |-> <<>>]}
    \cup {[state |-> "present", rows |-> [i \in 1..n |-> store_row(i, dup)]] :
             n \in 0..MaxStores, dup \in BOOLEAN}

Lib0 == [model_out |-> 5, predict_raises |-> FALSE, seed |-> 0]
Libs == [model_out : {-4, 5}, predict_raises : BOOLEAN, seed : {0, 1}]

\* the state of both scripts before they run
InitLocals ==
    /\ pred_pc = "start"
    /\ feature_names = <<>>
    /\ end_dt = 0
    /\ current_date = 0
    /\ date_range = <<>>
    /\ results = [status |-> "none"]
    /\ stdout = <<>>
    /\ route_pc = "start"
    /\ route_error = "none"
    /\ state_demand = <<>>
    /\ routes_df = <<>>
    /\ route = <<>>
    /\ leg = 0
    /\ requests = <<>>
    /\ total_distance_km = 0
    /\ total_emissions_kg = 0
    /\ m = empty_map
    /\ route_stdout = <<>>
    /\ output_map = [state |-> "absent"]

ModelFiles == {"absent", "ok", "corrupt"}

\* no data file: every model, feature file and pair of dates
InitMockDates ==
    /\ model_path \in ModelFiles
    /\ joblib_path \in ModelFiles
    /\ feature_file \in FeatureFiles
    /\ data_file = NoFile
    /\ preds_file = NoFile
    /\ stores_file = [state |-> "absent", rows |-> <<>>]
    /\ lib = Lib0
    /\ params \in {p \in [category : {None}, store : {None},
                           start_date : DateArgs, end_date : DateArgs] :
                      SpanOk(p.start_date, p.end_date)}

\* no data file: every category, store, model output and generator seed
InitMockValues ==
    /\ model_path \in {"absent", "ok"}
    /\ joblib_path = "ok"
    /\ feature_file = [state |-> "absent", names |-> <<>>]
    /\ data_file = NoFile
    /\ preds_file \in {NoFile} \cup StaleFiles
    /\ stores_file = [state |-> "present",
                      rows |-> [i \in 1..3 |-> store_row(i, FALSE)]]
    /\ lib \in Libs
    /\ \E d \in {<<NoneDate, NoneDate>>, <<<<2024, 2, 28>>, <<2024, 3, 1>>>>} :
          params \in [category : {None, "HOBBIES", "FOODS"},
                      store : {None, "CA_1", "TX_3"},
                      start_date : {d[1]}, end_date : {d[2]}]

\* a data file: every set of columns, row count, filter and feature file
InitData ==
    /\ model_path = "ok"
    /\ joblib_path = "absent"
    /\ feature_file \in FeatureFiles
    /\ data_file \in DataFiles
    /\ preds_file \in {NoFile,
          [state |-> "present", cols |-> {"store_id", "date", "prediction"},
           rows |-> <<csv_row("WI_1", 11)>>]}
    /\ stores_file = [state |-> "present",
                      rows |-> [i \in 1..3 |-> store_row(i, TRUE)]]
    /\ lib \in {l \in Libs : l.seed = 0}
    /\ \E d \in {<<NoneDate, NoneDate>>, <<<<2024, 2, 28>>, <<2024, 3, 1>>>>} :
          params \in [category : {None, "HOBBIES"},
                      store : {None, "CA_1"},
                      start_date : {d[1]}, end_date : {d[2]}]

\* route.py on every predictions.csv and store_locations.csv
InitRoute ==
    /\ model_path = "absent"
    /\ joblib_path = "absent"
    /\ feature_file = [state |-> "absent", names |-> <<>>]
    /\ data_file = NoFile
    /\ preds_file \in {NoFile} \cup StaleFiles
    /\ stores_file \in StoreFiles
    /\ lib = Lib0
    /\ params = [category |-> None, store |-> None,
                 start_date |-> NoneDate, end_date |-> NoneDate]

Init ==
    /\ InitLocals
    /\ \/ InitMockDates
       \/ InitMockValues
       \/ InitData
       \/ InitRoute
    /\ start_date = params.start_date
    /\ end_date = params.end_date

Next ==
    \/ LoadFail
    \/ DataBranch
    \/ MockBegin
    \/ MockWhile
    \/ MockFor
    \/ RouteLoad
    \/ RouteSelect
    \/ RouteTsp
    \/ RouteLeg
    \/ RouteSave

Spec == Init /\ [][Next]_vars

\* ------------------------------------------------------------------ claims
\* the calendar, stated on date strings
DateLE(a, b) ==
    \/ a[1] < b[1]
    \/ a[1] = b[1] /\ a[2] < b[2]
    \/ a[1] = b[1] /\ a[2] = b[2] /\ a[3] <= b[3]

NextDay(a) ==
    IF a[3] < DaysInMonth(a[1], a[2]) THEN <<a[1], a[2], a[3] + 1>>
    ELSE IF a[2] < 12 THEN <<a[1], a[2] + 1, 1>>
    ELSE <<a[1] + 1, 1, 1>>

LastDay == <<MAXYEAR, 12, 31>>

\* the call was made without a data file and got past the loading of the
\* model and of the feature names
MockCall ==
    /\ data_file.state = "absent"
    /\ \/ model_path = "ok"
       \/ model_path = "absent" /\ joblib_path = "ok"
    /\ feature_file.state # "corrupt"

DatesMissing == params.start_date = NoneDate \/ params.end_date = NoneDate

\* the dates the mock branch works on
UsedStart == IF DatesMissing THEN <<2024, 1, 1>> ELSE params.start_date
UsedEnd == IF DatesMissing THEN <<2024, 1, 7>> ELSE params.end_date

\* both dates are well formed and the range does not end on the last day
\* a datetime can hold
DatesUsable ==
    /\ ValidDateString(UsedStart)
    /\ ValidDateString(UsedEnd)
    /\ ~(DateLE(UsedStart, UsedEnd) /\ UsedEnd = LastDay)

MockSuccess ==
    /\ results.status = "success"
    /\ results.message = MSG_MOCK
    /\ results.total_predictions = Len(results.predictions)

\* C1 as stated: without a data file every call returns the mock success,
\* whatever the arguments and whether or not a model file is present
C1_AsStated ==
    (pred_pc = "returned" /\ data_file.state = "absent") => MockSuccess

\* C1 amended: without a data file, when a model file is present and loads,
\* feature_names.json is absent or holds a list of names, and the dates are
\* missing or both well formed with a range not ending on 9999-12-31, the
\* call returns status "success" with the mock message and the list of mock
\* predictions; in every other call without a data file it returns status
\* "error"
C1_MockFallback ==
    (pred_pc = "returned" /\ data_file.state = "absent") =>
        IF MockCall /\ DatesUsable
        THEN MockSuccess
        ELSE results.status = "error" /\ results.message[1] = MSG_FAILED

C1_Witness ==
    /\ pred_pc = "returned"
    /\ MockCall /\ DatesUsable
    /\ model_path = "absent"
    /\ params.start_date = NoneDate /\ params.end_date # NoneDate
    /\ MockSuccess
    /\ Len(results.predictions) > 0

\* the dates of the returned list
ListDates == [i \in 1..Len(results.predictions) |-> results.predictions[i].date]

\* one entry per calendar day from first to last, in order
DayByDay(dates, first, last) ==
    IF DateLE(first, last)
    THEN /\ Len(dates) >= 1
         /\ dates[1] = first
         /\ dates[Len(dates)] = last
         /\ \A i \in 1..(Len(dates) - 1) : dates[i + 1] = NextDay(dates[i])
    ELSE dates = <<>>

\* C7 as stated: for every pair of valid dates the mock branch returns one
\* entry per day from start_date to end_date
C7_AsStated ==
    (pred_pc = "returned" /\ MockCall
        /\ ValidDateString(UsedStart) /\ ValidDateString(UsedEnd))
    => (MockSuccess /\ DayByDay(ListDates, UsedStart, UsedEnd))

\* C7 amended: in the mock branch, for dates that are missing or both valid
\* with a range not ending on 9999-12-31, the list has one entry per
\* calendar day from start_date to end_date in ascending order,
\* total_predictions is its length, missing dates give the 7 days from
\* 2024-01-01, start_date after end_date gives success with an empty list,
\* and the while loop runs once per day of the range and then stops; a
\* range that ends on 9999-12-31 ends in the OverflowError of the increment
\* and status "error"
C7_MockDateRange ==
    /\ (pred_pc = "returned" /\ MockCall /\ DatesUsable) =>
          /\ MockSuccess
          /\ DayByDay(ListDates, UsedStart, UsedEnd)
          /\ results.total_predictions = Len(ListDates)
          /\ DatesMissing => Len(ListDates) = 7
          /\ ~DateLE(UsedStart, UsedEnd) => results.total_predictions = 0
    /\ (pred_pc = "returned" /\ MockCall
          /\ ValidDateString(UsedStart) /\ ValidDateString(UsedEnd)
          /\ DateLE(UsedStart, UsedEnd) /\ UsedEnd = LastDay) =>
          /\ results.status = "error"
          /\ results.message = <<MSG_FAILED, "date value out of range">>
    /\ (pred_pc = "while") =>
          /\ current_date = Ymd2Ord(UsedStart) + Len(date_range)
          /\ current_date <= Max(end_dt + 1, Ymd2Ord(UsedStart))

C7_Witness ==
    /\ pred_pc = "returned"
    /\ MockCall
    /\ params.start_date = <<2024, 2, 28>>
    /\ params.end_date = <<2024, 3, 1>>
    /\ MockSuccess
    /\ Len(ListDates) = 3

\* the rows of the data file that pass the store and category filters
Remaining ==
    {i \in 1..Len(data_file.rows) :
        /\ (params.store # None /\ "store_id" \in data_file.cols)
              => data_file.rows[i].store_id = params.store
        /\ (params.category # None /\ "cat_id" \in data_file.cols)
              => data_file.rows[i].cat_id = params.category}

DataSuccess ==
    /\ pred_pc = "returned"
    /\ results.status = "success"
    /\ results.message = MSG_OK

\* C8: in the data branch predictions.csv gets one row per row left by the
\* filters, the returned list holds the first min(20, rows left) of them in
\* row order, and total_predictions is the length of the returned list
C8_DataBranchRows ==
    DataSuccess =>
        /\ Len(preds_file.rows) = Cardinality(Remaining)
        /\ {preds_file.rows[i].id : i \in 1..Len(preds_file.rows)}
              = {data_file.rows[i].id : i \in Remaining}
        /\ Len(results.predictions) = Min(20, Cardinality(Remaining))
        /\ results.total_predictions = Len(results.predictions)
        /\ results.total_predictions <= 20
        /\ \A i \in 1..Len(results.predictions) :
              /\ results.predictions[i].prediction = preds_file.rows[i].value
              /\ preds_file.rows[i].date # NaT
                    => results.predictions[i].date = preds_file.rows[i].date

C8_Witness ==
    /\ DataSuccess
    /\ params.store # None
    /\ Len(preds_file.rows) > 20
    /\ Len(preds_file.rows) < Len(data_file.rows)
    /\ results.total_predictions = 20

\* C6: generate_predictions always returns a dict with status "success" or
\* "error" (the error message starting "Prediction generation failed: ")
\* and prints nothing but the JSON of that dict
C6_OnlyJsonPrinted ==
    pred_pc = "returned" =>
        /\ results.status \in {"success", "error"}
        /\ results.status = "error" => results.message[1] = MSG_FAILED
        /\ stdout = <<json_line(results)>>

\* C2: after a run of generate_predictions that returned "success", route.py
\* finds predictions.csv and loads and aggregates it without raising
C2_RouteLoadsAfterSuccess ==
    (pred_pc = "returned" /\ results.status = "success"
        /\ route_pc # "start")
    => /\ preds_file.state = "present"
       /\ route_error \notin {"FileNotFoundError: predictions.csv",
                              "KeyError: date", "DateParseError",
                              "KeyError: id", "KeyError: predicted_demand"}

\* the rows of store_locations.csv whose state has aggregated demand above
\* 10.0, by index
Qualifying ==
    {i \in 1..Len(stores_file.rows) :
        /\ stores_file.rows[i].state \in DOMAIN state_demand
        /\ state_demand[stores_file.rows[i].state] > 10}

\* the j-th qualifying row in file order
NthQualifying(j) ==
    CHOOSE i \in Qualifying : Cardinality({k \in Qualifying : k < i}) = j - 1

\* C3: the routed stores are the first min(5, k) of the k rows whose state
\* has aggregated demand above 10.0, in file order; with k = 0 the script
\* stops with "No stores selected for routing" before any routing request
\* and without writing the map
C3_LocationSelection ==
    /\ route_pc \in {"tsp", "legs", "done"} =>
          /\ Len(routes_df) = Min(5, Cardinality(Qualifying))
          /\ Len(routes_df) >= 1
          /\ \A j \in 1..Len(routes_df) :
                routes_df[j] = stores_file.rows[NthQualifying(j)]
          /\ \A j \in 1..Len(routes_df) :
                state_demand[routes_df[j].state] > 10
    /\ route_error = "No stores selected for routing" =>
          /\ Cardinality(Qualifying) = 0
          /\ requests = <<>>
          /\ output_map.state = "absent"
    /\ (route_pc = "error" /\ stores_file.state = "present"
          /\ route_error \notin {"FileNotFoundError: predictions.csv",
                                 "KeyError: date", "DateParseError",
                                 "KeyError: id", "KeyError: predicted_demand"}
          /\ Cardinality(Qualifying) = 0)
       => route_error = "No stores selected for routing"
    /\ route_pc \in {"start", "select", "tsp"} => requests = <<>>

C3_Witness ==
    /\ route_pc = "done"
    /\ Cardinality(Qualifying) > 5
    /\ Len(routes_df) = 5
    /\ \E i \in 1..Len(stores_file.rows) : i < 5 /\ i \notin Qualifying
    /\ \E k \in DOMAIN state_demand : state_demand[k] = 10

\* C4: the route visits every selected store exactly once and no other, so
\* it has (number of selected stores - 1) legs
C4_RouteVisitsEverySelected ==
    route_pc \in {"legs", "done"} =>
        /\ Len(route) = Len(routes_df)
        /\ \A i, j \in 1..Len(route) : i # j => route[i] # route[j]
        /\ {first_named(routes_df, route[i]) : i \in 1..Len(route)}
              = Range(routes_df)
        /\ route_pc = "done" => leg = Len(routes_df) - 1

LineDistances == [i \in 1..Len(m.lines) |-> m.lines[i].distance_km]

\* C5: legs are requested one at a time in route order; a leg answered
\* without "routes" prints an error, adds nothing to the totals, draws no
\* line and the loop goes on; after the last leg the map is saved, with the
\* total distance the sum over the legs that succeeded and the total
\* emissions 0.27 kg/km times that distance
C5_LegFailureHandling ==
    /\ route_pc \in {"legs", "done"} =>
          /\ Len(requests) = leg
          /\ \A k \in 1..Len(requests) :
                requests[k] = <<first_named(routes_df, route[k]),
                                first_named(routes_df, route[k + 1])>>
          /\ Len(m.lines) + Len(route_stdout) = leg
          /\ \A k \in 1..leg :
                \/ \E i \in 1..Len(m.lines) : m.lines[i].leg = k - 1
                \/ \E i \in 1..Len(route_stdout) :
                      /\ route_stdout[i].from = route[k]
                      /\ route_stdout[i].to = route[k + 1]
          /\ total_distance_km = SumSeq(LineDistances)
          /\ total_emissions_kg = 27 * total_distance_km
    /\ route_pc = "done" =>
          /\ leg = Len(route) - 1
          /\ output_map.state = "present"
          /\ output_map.map.lines = m.lines
          /\ output_map.map.summary[1] = SumSeq(LineDistances)
          /\ output_map.map.summary[2] = 27 * SumSeq(LineDistances)
    /\ route_pc # "done" => output_map.state = "absent"
    /\ route_pc = "legs" =>
          IF leg < Len(route) - 1 THEN ENABLED RouteLeg /\ ~ENABLED RouteSave
          ELSE ENABLED RouteSave /\ ~ENABLED RouteLeg

C5_Witness ==
    /\ route_pc = "done"
    /\ Len(m.lines) >= 2
    /\ Len(route_stdout) >= 1
    /\ route_stdout[1].from = route[1]

====
